---- MODULE Spec2Model ----
(***************************************************************************)
(* Model of scripts/fbt_tools/fbt_sdk.py: the SCons glue around the SDK    *)
(* API registry (validate_sdk_cache, generate_sdk_symbols, gen_sdk_data,   *)
(* SdkTreeBuilder).  The registry engine itself (fbt.sdk: SdkCache,        *)
(* SdkCollector, the Version) is imported by the file and is modelled from *)
(* the written specification of the registry.                              *)
(***************************************************************************)
EXTENDS Integers, Sequences, FiniteSets, TLC

\* ------------------------------------------------------------------ bounds
MaxName == 2
MaxHeader == 2
MaxMajor == 1
MaxMinor == 1
MaxDepth == 2
MaxDeps == 2
MaxIncs == 1

\* Symbol names and header names are numbered in the byte-wise order of the
\* strings they stand for: name 1 sorts before name 2.
Names == 1..MaxName
\* Signatures are only ever compared for equality: two stand for all.
Sigs == {1, 2}
HeaderNames == 1..MaxHeader

\* ------------------------------------------------------------ small helpers
Range(s) == {s[i] : i \in DOMAIN s}

\* Every sequence that lists a subset of S once each, in any order.
SeqsOf(S) ==
    UNION {{s \in [1..n -> S] : \A i, j \in 1..n : i # j => s[i] # s[j]}
           : n \in 0..Cardinality(S)}

\* Every ordering of the elements of the sequence s.
Orderings(s) == {t \in SeqsOf(Range(s)) : Len(t) = Len(s)}

\* sorted(xs, key): ascending by key(x); keys are distinct in every use.
SortBy(S, key(_)) ==
    CHOOSE s \in SeqsOf(S) :
        /\ Len(s) = Cardinality(S)
        /\ \A i, j \in DOMAIN s : i < j => key(s[i]) <= key(s[j])

\* ------------------------------------------------------- Signature Model
ApiEntryFunction(name, returns, params) ==
    [name |-> name, returns |-> returns, params |-> params]
ApiEntryVariable(name, var_type) == [name |-> name, var_type |-> var_type]

NameOf(e) == e.name
NamesIn(s) == {s[i].name : i \in DOMAIN s}

\* Every list of n distinct elements of S.
InjSeqs(S, n) == {s \in [1..n -> S] : \A i, j \in 1..n : i # j => s[i] # s[j]}

\* Lists of functions and of variables, no name twice, in any order.
FunctionLists ==
    UNION {{[i \in 1..n |-> ApiEntryFunction(ns[i], 1, ps[i])]
            : ns \in InjSeqs(Names, n), ps \in [1..n -> Sigs]}
           : n \in 0..MaxName}
VariableLists ==
    UNION {{[i \in 1..n |-> ApiEntryVariable(ns[i], 1)]
            : ns \in InjSeqs(Names, n)}
           : n \in 0..MaxName}
HeaderLists == UNION {InjSeqs(HeaderNames, n) : n \in 0..MaxHeader}

\* A Snapshot ("API"): functions, variables and headers, each in the order
\* in which it was extracted or stored.  No name is both a function and a
\* variable, and no name occurs twice.
Apis ==
    {a \in [functions : FunctionLists, variables : VariableLists,
            headers : HeaderLists] :
        NamesIn(a.functions) \cap NamesIn(a.variables) = {}}

EmptyApi == [functions |-> <<>>, variables |-> <<>>, headers |-> <<>>]

\* The symbols of a snapshot as name -> signature descriptor.
SymbolNames(a) == NamesIn(a.functions) \cup NamesIn(a.variables)
Signature(a, n) ==
    IF n \in NamesIn(a.functions)
    THEN LET f == CHOOSE f \in Range(a.functions) : f.name = n
         IN <<"function", f.returns, f.params>>
    ELSE LET v == CHOOSE v \in Range(a.variables) : v.name = n
         IN <<"variable", v.var_type>>

\* ----------------------------------------------------------------- Version
VersionBase == 65536
Versions == [major : 0..MaxMajor, minor : 0..MaxMinor]
SdkVersion(ma, mi) == [major |-> ma, minor |-> mi]

as_int(v) == v.major * VersionBase + v.minor
bump_major(v) == SdkVersion(v.major + 1, 0)
bump_minor(v) == SdkVersion(v.major, v.minor + 1)
VersionLess(v, w) ==
    \/ v.major < w.major
    \/ v.major = w.major /\ v.minor < w.minor

\* ---------------------------------------------------------- Registry Cache
\* The persisted record: last-known Snapshot, Version, finalized flag.
SdkCache(api, v, fin) == [sdk |-> api, version |-> v, finalized |-> fin]
Caches == [sdk : Apis, version : Versions, finalized : BOOLEAN]

\* No prior record: empty prior Snapshot, Version = 0.0.  validate_api sets
\* the flag on every run, so a validation run never reads this one.
DefaultCache == SdkCache(EmptyApi, SdkVersion(0, 0), TRUE)

added(old, new) == SymbolNames(new) \ SymbolNames(old)
removed(old, new) == SymbolNames(old) \ SymbolNames(new)
changed(old, new) ==
    {n \in SymbolNames(old) \cap SymbolNames(new) :
        Signature(old, n) # Signature(new, n)}

classify(old, new) ==
    IF removed(old, new) # {} \/ changed(old, new) # {} THEN "breaking"
    ELSE IF added(old, new) # {} THEN "additive"
    ELSE "compatible"

\* validate_api: classify the difference to the stored Snapshot, decide
\* finalized from the Version the caller has set (set_version) against the
\* stored Version, replace the stored Snapshot, persist the Version as set.
\* It never raises.
validate_api(cache, api, set_version) ==
    LET kind == classify(cache.sdk, api)
        fin == CASE kind = "compatible" -> TRUE
                 [] kind = "additive" -> VersionLess(cache.version, set_version)
                 [] kind = "breaking" -> cache.version.major < set_version.major
    IN SdkCache(api, set_version, fin)

is_buildable(cache) == cache.finalized

get_headers(cache) == SortBy(Range(cache.sdk.headers), LAMBDA h : h)
get_functions(cache) == SortBy(Range(cache.sdk.functions), NameOf)
get_variables(cache) == SortBy(Range(cache.sdk.variables), NameOf)

\* ------------------------------------------------------------ build errors
Text(s) == [k |-> "text", text |-> s, name |-> 0]
SymbolToken(n) == [k |-> "symbol", text |-> "", name |-> n]

\* Outcome of a builder action: no exception, or the UserError it raised
\* with the words of its message.
NoError == [raised |-> FALSE, message |-> <<>>]
UserError(msg) == [raised |-> TRUE, message |-> msg]

NotFinalizedMessage ==
    <<Text("SDK version is not finalized, please review changes and re-run operation")>>

\* As _check_sdk_is_up2date, with the names of the cache's symbols in the message.
_check_sdk_is_up2date_naming(sdk_cache) ==
    IF ~is_buildable(sdk_cache)
    THEN UserError(NotFinalizedMessage
                   \o [i \in 1..Len(get_functions(sdk_cache)) |->
                          SymbolToken(get_functions(sdk_cache)[i].name)]
                   \o [i \in 1..Len(get_variables(sdk_cache)) |->
                          SymbolToken(get_variables(sdk_cache)[i].name)])
    ELSE NoError

_check_sdk_is_up2date(sdk_cache) ==
    IF ~is_buildable(sdk_cache) THEN UserError(NotFinalizedMessage) ELSE NoError

\* ------------------------------------------------------- Table Generator
\* One line of generated text.
Line(t, name, x, y) == [t |-> t, name |-> name, x |-> x, y |-> y, comma |-> FALSE]
IncludeLine(h) == Line("#include", h, 0, 0)
VersionLine(n) == Line("elf_api_version", 0, n, 0)
OpenLine == Line("elf_api_table = sort(create_array_t<sym_entry>(", 0, 0, 0)
CloseLine == Line("));", 0, 0, 0)
EmptyLine == Line("", 0, 0, 0)
ApiMethod(f) == Line("API_METHOD", f.name, f.returns, f.params)
ApiVariable(v) == Line("API_VARIABLE", v.name, v.var_type, 0)

\* sep.join(lines) for sep = ",\n": every line but the last ends with a
\* comma; joining no lines gives the empty string, one empty line of text.
JoinCommaNl(lines) ==
    IF lines = <<>> THEN <<EmptyLine>>
    ELSE [i \in 1..Len(lines) |-> [lines[i] EXCEPT !.comma = (i < Len(lines))]]

RECURSIVE JoinNl(_)
\* "\n".join(texts): the lines of the texts, one after the other.
JoinNl(texts) ==
    IF texts = <<>> THEN <<>> ELSE Head(texts) \o JoinNl(Tail(texts))

\* As gen_sdk_data, with the variables emitted before the functions.
gen_sdk_data_variables_first(sdk_cache) ==
    LET headers == get_headers(sdk_cache)
        functions == get_functions(sdk_cache)
        variables == get_variables(sdk_cache)
        includes == [i \in 1..Len(headers) |-> <<IncludeLine(headers[i])>>]
        api_lines == [i \in 1..Len(variables) |-> ApiVariable(variables[i])]
                     \o [i \in 1..Len(functions) |-> ApiMethod(functions[i])]
    IN includes
       \o << <<VersionLine(as_int(sdk_cache.version))>>,
             <<OpenLine>>,
             JoinCommaNl(api_lines),
             <<CloseLine>> >>

\* As gen_sdk_data, with the version constant emitted before the includes.
gen_sdk_data_version_first(sdk_cache) ==
    LET headers == get_headers(sdk_cache)
        functions == get_functions(sdk_cache)
        variables == get_variables(sdk_cache)
        includes == [i \in 1..Len(headers) |-> <<IncludeLine(headers[i])>>]
        api_lines == [i \in 1..Len(functions) |-> ApiMethod(functions[i])]
                     \o [i \in 1..Len(variables) |-> ApiVariable(variables[i])]
    IN << <<VersionLine(as_int(sdk_cache.version))>> >>
       \o includes
       \o << <<OpenLine>>,
             JoinCommaNl(api_lines),
             <<CloseLine>> >>

\* As gen_sdk_data, walking the stored lists instead of the cache's getters.
gen_sdk_data_stored_order(sdk_cache) ==
    LET headers == sdk_cache.sdk.headers
        functions == sdk_cache.sdk.functions
        variables == sdk_cache.sdk.variables
        includes == [i \in 1..Len(headers) |-> <<IncludeLine(headers[i])>>]
        api_lines == [i \in 1..Len(functions) |-> ApiMethod(functions[i])]
                     \o [i \in 1..Len(variables) |-> ApiVariable(variables[i])]
    IN includes
       \o << <<VersionLine(as_int(sdk_cache.version))>>,
             <<OpenLine>>,
             JoinCommaNl(api_lines),
             <<CloseLine>> >>

gen_sdk_data(sdk_cache) ==
    LET headers == get_headers(sdk_cache)
        functions == get_functions(sdk_cache)
        variables == get_variables(sdk_cache)
        includes == [i \in 1..Len(headers) |-> <<IncludeLine(headers[i])>>]
        api_lines == [i \in 1..Len(functions) |-> ApiMethod(functions[i])]
                     \o [i \in 1..Len(variables) |-> ApiVariable(variables[i])]
    IN includes
       \o << <<VersionLine(as_int(sdk_cache.version))>>,
             <<OpenLine>>,
             JoinCommaNl(api_lines),
             <<CloseLine>> >>

\* ------------------------------------------------------------------- state
VARIABLES
    disk,          \* the persisted cache file
    version,       \* the Version as currently set by the caller, out of band
    current_sdk,   \* the Snapshot extracted by the last validation run
    result,        \* outcome of the last builder action
    ran,           \* "" before any action, else the name of the last one
    review,        \* history: how the last validation run classified the change
    final_major,   \* history: major of the Version at the last finalized validation
    final_version, \* history: Version persisted by the last finalized validation
    final_sdk,     \* history: Snapshot of the last finalized validation
    table,         \* the generated symbol-table file
    api_def,       \* what the last call of gen_sdk_data returned, <<>> before
    source,        \* SDKTree: the words after the colon in the .d file
    CPPPATH,       \* SDKTree: the include directories of the build environment
    header_depends, \* SdkTreeBuilder.header_depends
    header_dirs,   \* SdkTreeBuilder.header_dirs
    sdk_tree,      \* the header files deployed under the SDK root
    filtered_paths \* CPPPATH of the environment saved as SDK metadata

treeVars == <<source, CPPPATH, header_depends, header_dirs, sdk_tree, filtered_paths>>
vars == <<disk, version, current_sdk, result, ran, review, final_major, final_version, final_sdk,
          table, api_def, treeVars>>

NoFile == <<Line("no file", 0, 0, 0)>>

\* ----------------------------------------------------- validate_sdk_cache
\* The whole SDKSymUpdater action on an extracted Snapshot: load, validate,
\* save, and only then the finalized check.
\* As validate_sdk_cache, with the finalized check made before the save.
validate_sdk_cache_check_first(api) ==
    LET sdk_cache == validate_api(disk, api, version)
    IN /\ current_sdk' = api
       /\ disk' = IF is_buildable(sdk_cache) THEN sdk_cache ELSE disk
       /\ result' = _check_sdk_is_up2date(sdk_cache)
       /\ ran' = "validate_sdk_cache"
       /\ review' = classify(disk.sdk, api)
       /\ final_major' = IF sdk_cache.finalized THEN sdk_cache.version.major
                         ELSE final_major
       /\ UNCHANGED <<version, table, api_def, treeVars>>

\* As validate_sdk_cache, without the finalized check after the save.
validate_sdk_cache_no_check(api) ==
    LET sdk_cache == validate_api(disk, api, version)
    IN /\ current_sdk' = api
       /\ disk' = sdk_cache
       /\ result' = NoError
       /\ ran' = "validate_sdk_cache"
       /\ review' = classify(disk.sdk, api)
       /\ final_major' = IF sdk_cache.finalized THEN sdk_cache.version.major
                         ELSE final_major
       /\ UNCHANGED <<version, table, api_def, treeVars>>

validate_sdk_cache(api) ==
    LET sdk_cache == validate_api(disk, api, version)
    IN /\ current_sdk' = api
       /\ disk' = sdk_cache
       /\ result' = _check_sdk_is_up2date(sdk_cache)
       /\ ran' = "validate_sdk_cache"
       /\ review' = classify(disk.sdk, api)
       /\ final_major' = IF sdk_cache.finalized THEN sdk_cache.version.major
                         ELSE final_major
       /\ UNCHANGED <<version, table, api_def, treeVars>>

\* The caller bumps the Version out of band, between runs.
BumpMajor ==
    /\ version.major < MaxMajor
    /\ version' = bump_major(version)
    /\ UNCHANGED <<disk, current_sdk, result, ran, review, final_major,
                   final_version, final_sdk, table, api_def, treeVars>>

BumpMinor ==
    /\ version.minor < MaxMinor
    /\ version' = bump_minor(version)
    /\ UNCHANGED <<disk, current_sdk, result, ran, review, final_major,
                   final_version, final_sdk, table, api_def, treeVars>>

\* Snapshots an extraction run hands to validation: the declarations in
\* ascending or descending name order, with the build's SDK_HEADERS, listed
\* in descending order.
Monotone(s) ==
    \/ \A i, j \in DOMAIN s : i < j => s[i].name < s[j].name
    \/ \A i, j \in DOMAIN s : i < j => s[i].name > s[j].name
SDK_HEADERS == [i \in 1..MaxHeader |-> MaxHeader + 1 - i]
ExtractedApis ==
    {api : api \in {a \in Apis : /\ Monotone(a.functions)
                                /\ Monotone(a.variables)
                                /\ a.headers = SDK_HEADERS}}

NoTree ==
    /\ source = <<>>
    /\ CPPPATH = <<>>
    /\ header_depends = <<>>
    /\ header_dirs = <<>>
    /\ sdk_tree = {}
    /\ filtered_paths = <<>>

Init ==
    /\ NoTree
    /\ disk = DefaultCache
    /\ version = SdkVersion(0, 0)
    /\ current_sdk = EmptyApi
    /\ result = NoError
    /\ ran = ""
    /\ review = ""
    /\ final_major = 0
    /\ final_version = SdkVersion(0, 0)
    /\ final_sdk = EmptyApi
    /\ table = NoFile
    /\ api_def = <<>>

Validate ==
    /\ \E api \in ExtractedApis : validate_sdk_cache(api)
    /\ UNCHANGED <<final_version, final_sdk>>

Next == Validate \/ BumpMajor \/ BumpMinor

Spec == Init /\ [][Next]_vars

\* The same runs, with the Snapshot of the last finalized run remembered.
ValidateRemembering ==
    /\ \E api \in ExtractedApis : validate_sdk_cache(api)
    /\ final_version' = IF disk'.finalized THEN disk'.version ELSE final_version
    /\ final_sdk' = IF disk'.finalized THEN disk'.sdk ELSE final_sdk

NextHistory == ValidateRemembering \/ BumpMajor \/ BumpMinor

SpecHistory == Init /\ [][NextHistory]_vars

\* --------------------------------------------------- generate_sdk_symbols
\* The whole SDKSymGenerator action: load the cache, gate on finalized,
\* generate, write the target.  It never saves the cache.
\* As generate_sdk_symbols, without the finalized gate.
generate_sdk_symbols_ungated ==
    LET sdk_cache == disk
    IN /\ ran' = "generate_sdk_symbols"
       /\ result' = NoError
       /\ api_def' = gen_sdk_data(sdk_cache)
       /\ table' = JoinNl(gen_sdk_data(sdk_cache))
       /\ UNCHANGED <<disk, version, current_sdk, review, final_major,
                      final_version, final_sdk, treeVars>>

generate_sdk_symbols ==
    LET sdk_cache == disk
        check == _check_sdk_is_up2date(sdk_cache)
    IN /\ ran' = "generate_sdk_symbols"
       /\ result' = check
       /\ IF check.raised
          THEN UNCHANGED <<table, api_def>>
          ELSE /\ api_def' = gen_sdk_data(sdk_cache)
               /\ table' = JoinNl(gen_sdk_data(sdk_cache))
       /\ UNCHANGED <<disk, version, current_sdk, review, final_major,
                      final_version, final_sdk, treeVars>>

\* A table written by an earlier build, from the cache as it was then.
StaleTable == JoinNl(gen_sdk_data(DefaultCache))

\* A build that runs the table generator: the cache is whatever earlier
\* validation runs have persisted, in whatever order they extracted it, and
\* the target is absent or left over from an earlier build.
InitGen ==
    /\ NoTree
    /\ disk \in Caches
    /\ version = disk.version
    /\ current_sdk = EmptyApi
    /\ result = NoError
    /\ ran = ""
    /\ review = ""
    /\ final_major = 0
    /\ final_version = SdkVersion(0, 0)
    /\ final_sdk = EmptyApi
    /\ table \in {NoFile, StaleTable}
    /\ api_def = <<>>

NextGen == generate_sdk_symbols

SpecGen == InitGen /\ [][NextGen]_vars

\* ----------------------------------------------------------- SdkTreeBuilder
\* A path is the sequence of its characters.
Ord(c) ==
    CASE c = "." -> 46 [] c = "/" -> 47 [] c = "a" -> 97 [] c = "b" -> 98
      [] c = "c" -> 99 [] c = "h" -> 104 [] c = "x" -> 120
      [] c = "'" -> 39 [] c = "," -> 44 [] c = " " -> 32
      [] OTHER -> 102

\* Byte-wise order of strings.
StrLess(p, q) ==
    \E k \in 1..(Len(q)) :
        /\ k <= Len(p) + 1
        /\ \A i \in 1..(k - 1) : p[i] = q[i]
        /\ \/ k = Len(p) + 1
           \/ Ord(p[k]) < Ord(q[k])

\* sorted(set of strings)
SortedStrs(S) ==
    CHOOSE s \in SeqsOf(S) :
        /\ Len(s) = Cardinality(S)
        /\ \A i, j \in DOMAIN s : i < j => StrLess(s[i], s[j])

\* fname.endswith(".h")
EndsWithDotH(p) == Len(p) >= 2 /\ SubSeq(p, Len(p) - 1, Len(p)) = <<".", "h">>

\* os.path.dirname: what precedes the last slash, "" when there is none.
dirname(p) ==
    LET slashes == {i \in DOMAIN p : p[i] = "/"}
    IN IF slashes = {} THEN <<>>
       ELSE SubSeq(p, 1, (CHOOSE i \in slashes : \A j \in slashes : j <= i) - 1)

\* os.path.normpath on the relative paths without "..", "//" or "./" that the
\* model draws: the empty path becomes ".".
normpath(p) == IF p = <<>> THEN <<".">> ELSE p

\* posixpath.normpath(posixpath.join(a, b)) for relative b.
join_norm(a, b) == IF b = <<".">> THEN a ELSE a \o <<"/">> \o b

\* x in y, for strings
Contains(y, x) ==
    \E i \in 1..(Len(y) - Len(x) + 1) : SubSeq(y, i, i + Len(x) - 1) = x

RECURSIVE JoinCommaSp(_)
\* ", ".join(strs)
JoinCommaSp(strs) ==
    IF strs = <<>> THEN <<>>
    ELSE IF Len(strs) = 1 THEN strs[1]
    ELSE strs[1] \o <<",", " ">> \o JoinCommaSp(Tail(strs))

target_sdk_dir_name == <<"f7_sdk">>

_parse_sdk_depends_header_depends(depends) ==
    SelectSeq(depends, EndsWithDotH)

_parse_sdk_depends_header_dirs(hdeps) ==
    SortedStrs({normpath(dirname(hdeps[i])) : i \in DOMAIN hdeps})

RECURSIVE FilterPaths(_, _, _)
\* the loop of _generate_sdk_meta over full_fw_paths
FilterPaths(acc, full_fw_paths, sdk_dirs) ==
    IF full_fw_paths = <<>> THEN acc
    ELSE LET dir == Head(full_fw_paths)
         IN FilterPaths(
                IF Contains(sdk_dirs, dir)
                THEN Append(acc, join_norm(target_sdk_dir_name, dir))
                ELSE acc,
                Tail(full_fw_paths), sdk_dirs)

_generate_sdk_meta(hdirs, cpppath) ==
    LET full_fw_paths == [i \in DOMAIN cpppath |-> normpath(cpppath[i])]
        sdk_dirs == JoinCommaSp([i \in DOMAIN hdirs |-> <<"'">> \o hdirs[i] \o <<"'">>])
    IN FilterPaths(<<target_sdk_dir_name>>, full_fw_paths, sdk_dirs)

\* The whole SDKTree action: parse the dependencies, deploy the headers,
\* write the metadata.
deploy_action ==
    LET hdeps == _parse_sdk_depends_header_depends(source)
        hdirs == _parse_sdk_depends_header_dirs(hdeps)
    IN /\ ran' = "deploy_sdk_tree_action"
       /\ header_depends' = hdeps
       /\ header_dirs' = hdirs
       /\ sdk_tree' = {target_sdk_dir_name \o <<"/">> \o hdeps[i] : i \in DOMAIN hdeps}
       /\ filtered_paths' = _generate_sdk_meta(hdirs, CPPPATH)
       /\ UNCHANGED <<source, CPPPATH, disk, version, current_sdk, result, review,
                      final_major, final_version, final_sdk, table, api_def>>

\* Directories and files of the firmware tree.
Components == {<<"a">>, <<"a", "b">>, <<"b">>}
RECURSIVE DirsOfDepth(_)
DirsOfDepth(n) ==
    IF n = 1 THEN Components
    ELSE {d \o <<"/">> \o c : d \in DirsOfDepth(n - 1), c \in Components}
Dirs == UNION {DirsOfDepth(n) : n \in 1..MaxDepth}
DepFiles ==
    {<<"x", ".", "h">>, <<"x", ".", "c">>}
    \cup {d \o <<"/", "x", ".", "h">> : d \in Dirs}
SeqsUpTo(S, n) == UNION {[1..k -> S] : k \in 0..n}

InitTree ==
    /\ source \in SeqsUpTo(DepFiles, MaxDeps)
    /\ CPPPATH \in SeqsUpTo(Dirs \cup {<<".">>}, MaxIncs)
    /\ header_depends = <<>>
    /\ header_dirs = <<>>
    /\ sdk_tree = {}
    /\ filtered_paths = <<>>
    /\ disk = DefaultCache
    /\ version = SdkVersion(0, 0)
    /\ current_sdk = EmptyApi
    /\ result = NoError
    /\ ran = ""
    /\ review = ""
    /\ final_major = 0
    /\ final_version = SdkVersion(0, 0)
    /\ final_sdk = EmptyApi
    /\ table = NoFile
    /\ api_def = <<>>

NextTree == deploy_action

SpecTree == InitTree /\ [][NextTree]_vars

\* ================================================================== claims
ValidateStep == ran' = "validate_sdk_cache" /\ version' = version
Generated == ran = "generate_sdk_symbols" /\ ~result.raised
DiffNames(old, new) == added(old, new) \cup removed(old, new) \cup changed(old, new)
SameSymbols(a, b) ==
    /\ Range(a.functions) = Range(b.functions)
    /\ Range(a.variables) = Range(b.variables)
IsEntry(l) == l.t \in {"API_METHOD", "API_VARIABLE"}
Entries(text) == SelectSeq(text, IsEntry)

\* C1: table generation on a cache that is not finalized raises the
\* not-finalized error, never calls gen_sdk_data and leaves the target file as
\* it was; the target changes only when the cache is finalized.
C1_GatedOnFinalized ==
    [][/\ ~is_buildable(disk) =>
            /\ result' = UserError(NotFinalizedMessage)
            /\ api_def' = api_def
            /\ table' = table
       /\ table' # table => is_buildable(disk)]_vars

C1_Witness ==
    /\ ran = "generate_sdk_symbols"
    /\ ~disk.finalized
    /\ result.raised
    /\ table = StaleTable
    /\ api_def = <<>>

\* C2: after every validation run the persisted cache holds the Snapshot the
\* run extracted, and the run raised exactly when that cache is not finalized:
\* a run that ends not finalized has saved before it halts the build.
C2_SavedWhateverTheOutcome ==
    ran = "validate_sdk_cache" =>
        /\ disk.sdk = current_sdk
        /\ result.raised <=> ~disk.finalized

C2_Witness ==
    /\ ran = "validate_sdk_cache"
    /\ result.raised
    /\ ~disk.finalized
    /\ current_sdk.functions # <<>>
    /\ disk.sdk = current_sdk

\* C3 (as claimed): a validation run on the Snapshot of the run before it,
\* with the Version not edited in between, ends with the same finalized
\* verdict as the run before it.
C3_Idempotent ==
    [][(/\ ran = "validate_sdk_cache"
        /\ version = disk.version
        /\ ValidateStep
        /\ current_sdk' = current_sdk)
       => disk'.finalized = disk.finalized]_vars

\* C4 (as claimed): a finalized run persists a Version not below that of the
\* last finalized run, and above it when the symbols differ from those of the
\* last finalized run.
C4_Monotone ==
    [][(ValidateStep /\ disk'.finalized) =>
        /\ as_int(disk'.version) >= as_int(final_version)
        /\ ~SameSymbols(disk'.sdk, final_sdk) =>
               as_int(disk'.version) > as_int(final_version)]_vars

\* C5 (as claimed): the emitted entries, functions and variables together,
\* are in ascending order of name.
C5_EntriesSorted ==
    Generated =>
        \A i, j \in DOMAIN Entries(table) :
            i < j => Entries(table)[i].name <= Entries(table)[j].name

\* C5 (amended): every function entry precedes every variable entry, and the
\* names ascend within the functions and within the variables; the whole
\* sequence ascends exactly when no variable sorts before a function.
C5_SortedWithinKind ==
    Generated =>
        LET e == Entries(table)
        IN /\ \A i, j \in DOMAIN e :
                i < j => /\ ~(e[i].t = "API_VARIABLE" /\ e[j].t = "API_METHOD")
                         /\ e[i].t = e[j].t => e[i].name < e[j].name
           /\ (\A i, j \in DOMAIN e : i < j => e[i].name <= e[j].name)
              <=> ~\E f \in Range(disk.sdk.functions), v \in Range(disk.sdk.variables) :
                      v.name < f.name

C5_Witness ==
    /\ Generated
    /\ \E i, j \in DOMAIN Entries(table) :
          /\ i < j
          /\ Entries(table)[i].t = "API_METHOD"
          /\ Entries(table)[j].t = "API_VARIABLE"
          /\ Entries(table)[j].name < Entries(table)[i].name

\* C6: the written table is one include line per header, then the one
\* version line holding Version.as_int(), then the table literal with one
\* entry per function and per variable; no include follows the version line
\* and no entry precedes it.
C6_EmissionLayout ==
    Generated =>
        LET n == Cardinality(Range(disk.sdk.headers))
            methods == {i \in DOMAIN table : table[i].t = "API_METHOD"}
            variables == {i \in DOMAIN table : table[i].t = "API_VARIABLE"}
        IN /\ Len(table) >= n + 4
           /\ \A i \in 1..n : table[i].t = "#include"
           /\ {table[i].name : i \in 1..n} = Range(disk.sdk.headers)
           /\ table[n + 1] = VersionLine(disk.version.major * VersionBase
                                         + disk.version.minor)
           /\ table[n + 2] = OpenLine
           /\ table[Len(table)] = CloseLine
           /\ \A i \in (n + 2)..Len(table) :
                 table[i].t \notin {"#include", "elf_api_version"}
           /\ \A i \in methods \cup variables : n + 2 < i /\ i < Len(table)
           /\ Cardinality(methods) = Len(disk.sdk.functions)
           /\ Cardinality(variables) = Len(disk.sdk.variables)
           /\ {table[i].name : i \in methods} = NamesIn(disk.sdk.functions)
           /\ {table[i].name : i \in variables} = NamesIn(disk.sdk.variables)

C6_Witness ==
    /\ Generated
    /\ Len(disk.sdk.headers) >= 2
    /\ disk.sdk.functions # <<>>
    /\ disk.sdk.variables # <<>>
    /\ disk.version.major > 0
    /\ disk.version.minor > 0

C8_MessageNamesTheChange ==
    [][(ValidateStep /\ result'.raised) =>
        /\ \A n \in DiffNames(disk.sdk, current_sdk') :
              SymbolToken(n) \in Range(result'.message)
        /\ \E i \in DOMAIN result'.message :
              result'.message[i] \in {Text("bump major"), Text("bump minor")}]_vars

\* C8 (amended): the error of a run that ends not finalized is the one fixed
\* text, the same for every cache, naming no symbol and no component to bump.
C8_GenericMessage ==
    result.raised =>
        /\ result.message = NotFinalizedMessage
        /\ \A i \in DOMAIN result.message : result.message[i].k = "text"

C8_Witness ==
    /\ ran = "validate_sdk_cache"
    /\ result.raised
    /\ review = "breaking"
    /\ SymbolNames(current_sdk) # {}

IsPathPrefix(d, h) ==
    \/ d = h
    \/ /\ Len(d) < Len(h)
       /\ SubSeq(h, 1, Len(d)) = d
       /\ h[Len(d) + 1] = "/"

C10_ExactPrefixMatch ==
    ran = "deploy_sdk_tree_action" =>
        \A i \in DOMAIN CPPPATH :
            join_norm(target_sdk_dir_name, normpath(CPPPATH[i]))
                \in Range(Tail(filtered_paths))
            => \E j \in DOMAIN header_dirs :
                   IsPathPrefix(normpath(CPPPATH[i]), header_dirs[j])

====
